---- MODULE Spec2Model ----
(***************************************************************************)
(* Model of the batch-process store of                                     *)
(* invokeai/app/services/batch_manager_storage.py                          *)
(* (SqliteBatchProcessStorage).  The two tables of the SQLite database are *)
(* the state; every public operation of the store is one action.  A        *)
(* statement, its commit and the read-back that ends save, create_session  *)
(* and update_session_state are part of the same action when one caller    *)
(* runs at a time.                                                         *)
(*                                                                         *)
(* Two workloads drive the store.  Spec is the session workload: every     *)
(* BatchSession and every state change, over batches saved with one        *)
(* payload.  ProcessSpec is the batch workload: every payload of           *)
(* BatchProcesses, over one session per batch, with the history of cancel  *)
(* and delete recorded.                                                    *)
(*                                                                         *)
(* ThreadSpec is the store under several caller threads: every operation   *)
(* is the steps of its code, SqliteLock.__enter__ and __exit__ of          *)
(* invokeai/app/services/thread.py included, and a statement or a commit   *)
(* may raise sqlite3.Error.                                                *)
(***************************************************************************)
EXTENDS Integers, Sequences, FiniteSets, TLC

VARIABLES
    batch_process,    \* table batch_process: a set of rows
    batch_session,    \* table batch_session: its rows in rowid (insertion) order
    call,             \* the operation that ran last, with its arguments
    ret,              \* what that operation returned or raised
    cancel_history,   \* history: per batch id, what cancel/delete have done so far
    sqlite_lock,      \* thread.py: the RLock, its owner and its hold count
    waiting,          \* thread.py: the module-level counter waiting
    journal,          \* the open transaction of the connection: the tables to roll back to
    pc,               \* per caller thread: where it is in the operation it runs
    frame             \* per caller thread: the operation it runs, its locals, its outcome

vars == <<batch_process, batch_session, call, ret, cancel_history,
          sqlite_lock, waiting, journal, pc, frame>>

\* what the caller threads add to the state of the store
thread_vars == <<sqlite_lock, waiting, journal, pc, frame>>

-----------------------------------------------------------------------------
(* Bounds and input domains                                                *)

\* most rows the batch_session table holds in the model
MaxSessionRows == 2

BatchIds == {"B1", "B2"}
SessionIds == {"S1", "S2"}

\* Python's None: BatchProcess.batch_id is Optional[str]
None == "None"

\* Literal["created", "completed", "inprogress", "error"]
States == {"created", "completed", "inprogress", "error"}

-----------------------------------------------------------------------------
(* Batch payloads: Python values and their JSON text                       *)

\* BatchDataType = Union[StrictStr, StrictInt, StrictFloat, ImageField];
\* a Python scalar is its type and the digits or characters it holds
BatchDataType == {"str", "int", "float"}

\* Batch(data, node_id); data holds one field -> value mapping per run
Batch(node_id, data) == [data |-> data, node_id |-> node_id]

BatchA == Batch("n1", << [py |-> "int", v |-> "1"], [py |-> "str", v |-> "1"] >>)
BatchB == Batch("n2", << [py |-> "float", v |-> "1"] >>)

\* the batches lists callers pass to save (default_factory=list gives <<>>)
BatchLists == { <<>>, <<BatchA, BatchB>>, <<BatchB, BatchA>> }

\* the graphs callers pass to save
Graphs == {"G1", "G2"}

\* json.dumps of a scalar: a str is quoted, a float always carries a
\* fraction ("1.0"), an int never does ("1")
json_dumps_scalar(x) ==
    IF x.py = "str"
    THEN [tok |-> "string", text |-> x.v, frac |-> FALSE]
    ELSE [tok |-> "number", text |-> x.v, frac |-> (x.py = "float")]

\* json.loads of a scalar token: a number with a fraction is a float,
\* one without is an int
json_loads_scalar(t) ==
    IF t.tok = "string" THEN [py |-> "str", v |-> t.text]
    ELSE IF t.frac THEN [py |-> "float", v |-> t.text]
    ELSE [py |-> "int", v |-> t.text]

\* batch.json(): a JSON object with the fields data and node_id
batch_json(b) ==
    [tok |-> "object",
     data |-> [i \in 1..Len(b.data) |-> json_dumps_scalar(b.data[i])],
     node_id |-> [tok |-> "string", text |-> b.node_id, frac |-> FALSE]]

\* parse_raw_as(Batch, text) over Union[str, int, float] without the Strict
\* types: the first member of the union takes every scalar as a str
parse_raw_as_Batch_lax(t) ==
    Batch(json_loads_scalar(t.node_id).v,
          [i \in 1..Len(t.data) |-> [py |-> "str", v |-> json_loads_scalar(t.data[i]).v]])

\* parse_raw_as(Batch, text): every data value goes through json.loads and
\* the strict union BatchDataType, which keeps a value of one of its types
parse_raw_as_Batch(t) ==
    Batch(json_loads_scalar(t.node_id).v,
          [i \in 1..Len(t.data) |-> json_loads_scalar(t.data[i])])

\* batches = [batch.json() for batch in batch_process.batches];
\* json.dumps(batches): a JSON array of strings, each the JSON text of a batch
dumps_batches(batches) ==
    [tok |-> "array",
     items |-> [i \in 1..Len(batches) |-> [tok |-> "string", text |-> batch_json(batches[i])]]]

\* batches = json.loads(batches_raw);
\* batches = [parse_raw_as(Batch, batch) for batch in batches]
loads_batches(batches_raw) ==
    [i \in 1..Len(batches_raw.items) |-> parse_raw_as_Batch(batches_raw.items[i].text)]

\* batch_process.graph.json(): the text form of the graph
graph_json(g) == [tok |-> "graph", text |-> g]

\* parse_raw_as(Graph, graph_raw)
parse_raw_as_Graph(graph_raw) == graph_raw.text

-----------------------------------------------------------------------------
(* The schema and the statements the store runs                            *)

\* SQLite's default when the PRAGMA is not run
foreign_keys_off == FALSE

\* PRAGMA foreign_keys = ON, run by __init__ on the one connection
foreign_keys == TRUE

\* the columns of CREATE TABLE batch_session
batch_session_columns ==
    {"batch_id", "session_id", "state", "created_at", "updated_at", "deleted_at"}

\* operands of a comparison in a WHERE clause: a bound parameter (?), a
\* quoted string literal, or a bare identifier, which names a column
Param(v) == [kind |-> "param", v |-> v]
StringLiteral(v) == [kind |-> "literal", v |-> v]
Identifier(v) == [kind |-> "identifier", v |-> v]

\* one comparison  col = operand  of a WHERE clause
Eq(col, operand) == [col |-> col, operand |-> operand]

\* the identifiers a WHERE clause names
where_identifiers(where) ==
    {where[i].col : i \in 1..Len(where)}
        \cup {where[i].operand.v : i \in {j \in 1..Len(where) : where[j].operand.kind = "identifier"}}

\* sqlite3.OperationalError "no such column", raised by cursor.execute
no_such_column(where) == where_identifiers(where) \ batch_session_columns # {}

\* whether a row satisfies every comparison of a WHERE clause
where_matches(row, where) ==
    \A i \in 1..Len(where) :
        row[where[i].col] = (IF where[i].operand.kind = "identifier"
                             THEN row[where[i].operand.v]
                             ELSE where[i].operand.v)

\* SELECT * FROM batch_session WHERE ...: the matching rows
select_batch_session(table, where) ==
    SelectSeq(table, LAMBDA row : where_matches(row, where))

\* what an operation hands back: a value, or one of the store's exceptions
Return(value) == [kind |-> "ok", value |-> value]
Raise(exception) == [kind |-> exception, value |-> None]

\* the rows of batch_process with a batch_id
rows_of(table, batch_id) == {r \in table : r.batch_id = batch_id}

\* the batch ids of a batch_process table
ids_of(table) == {r.batch_id : r \in table}

\* whether batch_session holds the row (batch_id, session_id)
has_session(table, batch_id, session_id) ==
    \E i \in 1..Len(table) :
        table[i].batch_id = batch_id /\ table[i].session_id = session_id

-----------------------------------------------------------------------------
(* Statements                                                              *)

\* DELETE FROM batch_process WHERE batch_id = ?
delete_batch_process(table, batch_id) == table \ rows_of(table, batch_id)

\* FOREIGN KEY (batch_id) REFERENCES batch_process (batch_id) ON DELETE CASCADE:
\* what the DELETE above does to batch_session
on_delete_cascade(table, batch_id) ==
    IF foreign_keys
    THEN SelectSeq(table, LAMBDA row : row.batch_id # batch_id)
    ELSE table

\* INSERT OR REPLACE INTO batch_process: a batch_id already there has its row
\* replaced by the new values, canceled back at its DEFAULT(0)
insert_or_replace_batch_process(table, batch_id, batches, graph) ==
    IF batch_id = None
    THEN table
    ELSE (table \ {r \in table : r.batch_id = batch_id})
            \cup {[batch_id |-> batch_id, batches |-> batches,
                   graph |-> graph, canceled |-> 0]}

\* INSERT OR IGNORE INTO batch_process (batch_id, batches, graph) VALUES (?, ?, ?):
\* a NULL batch_id (NOT NULL) or a batch_id already there (PRIMARY KEY) skips
\* the row; canceled takes its DEFAULT(0)
insert_or_ignore_batch_process(table, batch_id, batches, graph) ==
    IF batch_id = None \/ rows_of(table, batch_id) # {}
    THEN table
    ELSE table \cup {[batch_id |-> batch_id, batches |-> batches,
                      graph |-> graph, canceled |-> 0]}

\* UPDATE batch_process SET canceled = NOT canceled WHERE batch_id = ?
update_canceled_toggle(table, batch_id) ==
    {IF r.batch_id = batch_id THEN [r EXCEPT !.canceled = 1 - @] ELSE r : r \in table}

\* UPDATE batch_process SET canceled = 1, without the WHERE
update_canceled_every_row(table, batch_id) == {[r EXCEPT !.canceled = 1] : r \in table}

\* UPDATE batch_process SET canceled = 1 WHERE batch_id = ?
update_canceled(table, batch_id) ==
    {IF r.batch_id = batch_id THEN [r EXCEPT !.canceled = 1] ELSE r : r \in table}

\* the FOREIGN KEY of batch_session: sqlite3.IntegrityError when the INSERT
\* names a batch_id that batch_process does not hold (OR IGNORE does not
\* cover foreign keys)
foreign_key_failed(processes, batch_id) ==
    foreign_keys /\ batch_id \notin ids_of(processes)

\* INSERT OR REPLACE INTO batch_session: a row already there is deleted and
\* the new one inserted under a new rowid
insert_or_replace_batch_session(table, session) ==
    Append(SelectSeq(table, LAMBDA row : ~(row.batch_id = session.batch_id
                                           /\ row.session_id = session.session_id)),
           session)

\* INSERT OR IGNORE INTO batch_session (batch_id, session_id, state) VALUES (?, ?, ?):
\* the row is skipped when PRIMARY KEY (batch_id, session_id) is taken
insert_or_ignore_batch_session(table, session) ==
    IF has_session(table, session.batch_id, session.session_id)
    THEN table
    ELSE Append(table, session)

\* UPDATE batch_session SET state = ? WHERE batch_id = ? AND session_id = ?
\* AND state NOT IN ('completed', 'error'): a finished session keeps its state
update_state_unless_finished(table, state, batch_id, session_id) ==
    [i \in 1..Len(table) |->
        IF /\ table[i].batch_id = batch_id
           /\ table[i].session_id = session_id
           /\ table[i].state \notin {"completed", "error"}
        THEN [table[i] EXCEPT !.state = state]
        ELSE table[i]]

\* UPDATE batch_session SET state = ? WHERE batch_id = ? AND session_id = ?
update_state(table, state, batch_id, session_id) ==
    [i \in 1..Len(table) |->
        IF table[i].batch_id = batch_id /\ table[i].session_id = session_id
        THEN [table[i] EXCEPT !.state = state]
        ELSE table[i]]

\* the WHERE clauses of the three SELECTs on batch_session
get_session_where(session_id) == << Eq("session_id", Param(session_id)) >>

\* WHERE batch_id = ?, the state left out
get_created_session_where_any_state(batch_id) == << Eq("batch_id", Param(batch_id)) >>

get_created_session_where(batch_id) ==
    << Eq("batch_id", Param(batch_id)), Eq("state", StringLiteral("created")) >>

get_created_sessions_where(batch_id) ==
    << Eq("batch_id", Param(batch_id)), Eq("state", Identifier("created")) >>

-----------------------------------------------------------------------------
(* Reads: what get, get_session, get_created_session and                   *)
(* get_created_sessions hand back on given tables                          *)

deserialize_batch_process(row) ==
    [batch_id |-> row.batch_id,
     batches |-> loads_batches(row.batches),
     graph |-> parse_raw_as_Graph(row.graph),
     canceled |-> (row.canceled = 1)]

deserialize_batch_session(row) ==
    [batch_id |-> row.batch_id, session_id |-> row.session_id, state |-> row.state]

\* get(batch_id): fetchone() of the SELECT by primary key
get_returns(processes, batch_id) ==
    IF rows_of(processes, batch_id) = {}
    THEN Raise("BatchProcessNotFoundException")
    ELSE Return(deserialize_batch_process(CHOOSE r \in rows_of(processes, batch_id) : TRUE))

\* fetchone() of a SELECT without ORDER BY: None, or any one of the rows
fetchone_returns(rows) ==
    IF rows = << >>
    THEN {Raise("BatchSessionNotFoundException")}
    ELSE {Return(deserialize_batch_session(rows[i])) : i \in 1..Len(rows)}

\* get_session(session_id): every row it may hand back
get_session_returns(sessions, session_id) ==
    IF no_such_column(get_session_where(session_id))
    THEN {Raise("BatchSessionNotFoundException")}
    ELSE fetchone_returns(select_batch_session(sessions, get_session_where(session_id)))

\* get_created_session(batch_id)
get_created_session_returns(sessions, batch_id) ==
    IF no_such_column(get_created_session_where(batch_id))
    THEN {Raise("BatchSessionNotFoundException")}
    ELSE fetchone_returns(select_batch_session(sessions, get_created_session_where(batch_id)))

\* get_created_sessions(batch_id): fetchall() is a list and never None, so
\* "if result is None" does not fire
get_created_sessions_returns(sessions, batch_id) ==
    IF no_such_column(get_created_sessions_where(batch_id))
    THEN Raise("BatchSessionNotFoundException")
    ELSE LET result == select_batch_session(sessions, get_created_sessions_where(batch_id))
         IN  Return([i \in 1..Len(result) |-> deserialize_batch_session(result[i])])

-----------------------------------------------------------------------------
(* thread.py: the lock of the connection, and the caller threads           *)

\* the caller threads
Threads == {"T1", "T2"}

\* how far from 0 the counter waiting may be when a thread enters an operation
MaxWaitingDrift == 0

\* sqlite_lock: RLock = RLock(): free, held by nobody
RLock == [owner |-> None, count |-> 0]

\* no lock at all: acquire() never blocks
can_acquire_unlocked(lock, thread) == TRUE

\* RLock.acquire() blocks unless the lock is free or held by the caller
can_acquire(lock, thread) == lock.owner \in {None, thread}

\* RLock.acquire(): the caller owns the lock, one more hold
acquire(lock, thread) == [owner |-> thread, count |-> lock.count + 1]

\* RLock.release() that leaves the holds as they were
release_nothing(lock) == lock

\* RLock.release(): one hold less, the lock free at zero
release(lock) ==
    IF lock.count <= 1 THEN RLock ELSE [lock EXCEPT !.count = @ - 1]

\* the connection outside a transaction
autocommit == [open |-> FALSE, batch_process |-> {}, batch_session |-> << >>]

\* the sqlite3 module begins a transaction before INSERT, UPDATE and DELETE:
\* the journal keeps the tables as they were
begin(processes, sessions) ==
    [open |-> TRUE, batch_process |-> processes, batch_session |-> sessions]

\* None as the value a thread holds where it may hold a row as well
NoValue == << >>

\* what a thread keeps of a value returned or an exception raised
outcome(r) == [kind |-> r.kind, value |-> IF r.kind = "ok" THEN r.value ELSE NoValue]

\* the locals of a thread inside an operation of the store
Frame(op, batch_id, session_id, state) ==
    [op |-> op, batch_id |-> batch_id, session_id |-> session_id, state |-> state,
     block |-> "statement",      \* the with-block it is in: "statement" or "read_back"
     loaded |-> 0,               \* waiting + 1 or waiting - 1, computed and not yet stored
     exc |-> None,               \* the typed exception on its way out of the with-block
     result |-> Return(NoValue), \* what the SELECT of the with-block fetched
     ret |-> Return(NoValue),    \* what the operation returned or raised
     existed |-> FALSE,          \* the row it names was there when its statement ran
     committed |-> FALSE,        \* its statement was committed
     changed |-> FALSE,          \* the commit changed a table
     rolled_back |-> FALSE,      \* rollback() ran
     held |-> FALSE]             \* rollback() ran while the thread held the lock

-----------------------------------------------------------------------------
(* The operations of SqliteBatchProcessStorage                             *)

\* the record of an operation and its arguments; existed tells whether the
\* row the operation names was in its table when the operation began
Call(op, batch_id, session_id, state, batches, graph, existed) ==
    [op |-> op, batch_id |-> batch_id, session_id |-> session_id, state |-> state,
     batches |-> batches, graph |-> graph, existed |-> existed]

\* BatchProcess(batch_id, batches, graph); canceled is not stored by save
BatchProcess(batch_id, batches, graph) ==
    [batch_id |-> batch_id, batches |-> batches, graph |-> graph]

\* BatchSession(batch_id, session_id, state)
BatchSession(batch_id, session_id, state) ==
    [batch_id |-> batch_id, session_id |-> session_id, state |-> state]

\* the BatchSessionChanges values: state is a required field
BatchSessionChanges == [state : States]

\* history of cancel and delete, read off the call that ran, for the batch
\* ids a workload records: "canceled" once cancel has returned for an
\* existing batch, "deleted" once that batch has been deleted afterwards
track_cancel(history, c) ==
    IF c.batch_id \notin DOMAIN history THEN history
    ELSE IF c.op = "cancel" /\ c.existed
    THEN [history EXCEPT ![c.batch_id] = "canceled"]
    ELSE IF c.op = "delete" /\ history[c.batch_id] = "canceled"
    THEN [history EXCEPT ![c.batch_id] = "deleted"]
    ELSE history

History == cancel_history' = track_cancel(cancel_history, call')

delete(batch_id) ==
    /\ batch_process' = delete_batch_process(batch_process, batch_id)
    /\ batch_session' = on_delete_cascade(batch_session, batch_id)
    /\ ret' = Return(None)
    /\ call' = Call("delete", batch_id, None, None, None, None,
                    batch_id \in ids_of(batch_process))
    /\ History
    /\ UNCHANGED thread_vars

save(batch_process_arg) ==
    /\ batch_process' = insert_or_ignore_batch_process(
                            batch_process, batch_process_arg.batch_id,
                            dumps_batches(batch_process_arg.batches),
                            graph_json(batch_process_arg.graph))
    /\ ret' = get_returns(batch_process', batch_process_arg.batch_id)
    /\ call' = Call("save", batch_process_arg.batch_id, None, None,
                    batch_process_arg.batches, batch_process_arg.graph,
                    batch_process_arg.batch_id \in ids_of(batch_process))
    /\ UNCHANGED batch_session
    /\ History
    /\ UNCHANGED thread_vars

get(batch_id) ==
    /\ ret' = get_returns(batch_process, batch_id)
    /\ call' = Call("get", batch_id, None, None, None, None, FALSE)
    /\ UNCHANGED <<batch_process, batch_session>>
    /\ History
    /\ UNCHANGED thread_vars

cancel(batch_id) ==
    /\ batch_process' = update_canceled(batch_process, batch_id)
    /\ ret' = Return(None)
    /\ call' = Call("cancel", batch_id, None, None, None, None,
                    batch_id \in ids_of(batch_process))
    /\ UNCHANGED batch_session
    /\ History
    /\ UNCHANGED thread_vars

create_session(session) ==
    /\ \/ Len(batch_session) < MaxSessionRows
       \/ has_session(batch_session, session.batch_id, session.session_id)
       \/ foreign_key_failed(batch_process, session.batch_id)
    /\ IF foreign_key_failed(batch_process, session.batch_id)
       THEN /\ batch_session' = batch_session
            /\ ret' = Raise("BatchSessionSaveException")
       ELSE /\ batch_session' = insert_or_ignore_batch_session(batch_session, session)
            /\ ret' \in get_session_returns(batch_session', session.session_id)
    /\ call' = Call("create_session", session.batch_id, session.session_id,
                    session.state, None, None,
                    has_session(batch_session, session.batch_id, session.session_id))
    /\ UNCHANGED batch_process
    /\ History
    /\ UNCHANGED thread_vars

get_session(session_id) ==
    /\ ret' \in get_session_returns(batch_session, session_id)
    /\ call' = Call("get_session", None, session_id, None, None, None, FALSE)
    /\ UNCHANGED <<batch_process, batch_session>>
    /\ History
    /\ UNCHANGED thread_vars

get_created_session(batch_id) ==
    /\ ret' \in get_created_session_returns(batch_session, batch_id)
    /\ call' = Call("get_created_session", batch_id, None, None, None, None, FALSE)
    /\ UNCHANGED <<batch_process, batch_session>>
    /\ History
    /\ UNCHANGED thread_vars

get_created_sessions(batch_id) ==
    /\ ret' = get_created_sessions_returns(batch_session, batch_id)
    /\ call' = Call("get_created_sessions", batch_id, None, None, None, None, FALSE)
    /\ UNCHANGED <<batch_process, batch_session>>
    /\ History
    /\ UNCHANGED thread_vars

update_session_state(batch_id, session_id, changes) ==
    /\ batch_session' = IF changes.state # None
                        THEN update_state(batch_session, changes.state, batch_id, session_id)
                        ELSE batch_session
    /\ ret' \in get_session_returns(batch_session', session_id)
    /\ call' = Call("update_session_state", batch_id, session_id, changes.state,
                    None, None, has_session(batch_session, batch_id, session_id))
    /\ UNCHANGED batch_process
    /\ History
    /\ UNCHANGED thread_vars

-----------------------------------------------------------------------------
(* The callers                                                             *)

\* one call of any operation of the store, its arguments drawn from the
\* values the callers of a workload pass
Operation(batch_processes, batch_sessions, changes_values) ==
    \/ \E batch_id \in BatchIds : delete(batch_id)
    \/ \E batch_process_arg \in batch_processes : save(batch_process_arg)
    \/ \E batch_id \in BatchIds : get(batch_id)
    \/ \E batch_id \in BatchIds : cancel(batch_id)
    \/ \E session \in batch_sessions : create_session(session)
    \/ \E session_id \in SessionIds : get_session(session_id)
    \/ \E batch_id \in BatchIds : get_created_session(batch_id)
    \/ \E batch_id \in BatchIds : get_created_sessions(batch_id)
    \/ \E batch_id \in BatchIds, session_id \in SessionIds, changes \in changes_values :
           update_session_state(batch_id, session_id, changes)

\* the store after __init__: both tables created and empty
Constructed ==
    /\ batch_process = {}
    /\ batch_session = << >>
    /\ call = Call("__init__", None, None, None, None, None, FALSE)
    /\ ret = Return(None)
    /\ sqlite_lock = RLock
    /\ waiting = 0
    /\ journal = autocommit
    /\ pc = [t \in Threads |-> "idle"]
    /\ frame = [t \in Threads |-> Frame("__init__", None, None, None)]

Init ==
    /\ Constructed
    /\ cancel_history = << >>

\* the session workload: one payload per batch, every session value
SessionWorkloadProcesses ==
    {BatchProcess(b, <<BatchA, BatchB>>, "G1") : b \in BatchIds \cup {None}}

SessionWorkloadSessions ==
    {BatchSession(b, s, st) : b \in BatchIds, s \in SessionIds, st \in States}

Next == Operation(SessionWorkloadProcesses, SessionWorkloadSessions, BatchSessionChanges)

Spec == Init /\ [][Next]_vars

\* the batch workload: every payload, one session per batch
ProcessWorkloadProcesses ==
    {BatchProcess(b, l, g) : b \in BatchIds \cup {None}, l \in BatchLists, g \in Graphs}

ProcessWorkloadSessions == {BatchSession(b, "S1", "created") : b \in BatchIds}

ProcessWorkloadChanges == {[state |-> "completed"]}

ProcessInit ==
    /\ Constructed
    /\ cancel_history = [b \in BatchIds |-> "never"]

ProcessNext ==
    Operation(ProcessWorkloadProcesses, ProcessWorkloadSessions, ProcessWorkloadChanges)

ProcessSpec == ProcessInit /\ [][ProcessNext]_vars

-----------------------------------------------------------------------------
(* The operations of the store, step by step, under caller threads         *)

\* the operations that end with "return self.get(...)" or
\* "return self.get_session(...)" after their with-block
ReadBack == {"save", "create_session", "update_session_state"}

\* the operations whose with-block runs a SELECT
Selects == {"get", "get_session", "get_created_session", "get_created_sessions"}

\* the operation whose with-block a thread is in: its own, or the get or
\* get_session that reads back
running(f) ==
    IF f.block = "statement" THEN f.op
    ELSE IF f.op = "save" THEN "get"
    ELSE "get_session"

\* except sqlite3.Error as e: ... raise <exception> from e, per operation
except_sqlite3_Error(op) ==
    CASE op = "delete" -> "BatchProcessDeleteException"
      [] op = "save" -> "BatchProcessSaveException"
      [] op = "get" -> "BatchProcessNotFoundException"
      [] op = "cancel" -> "BatchSessionSaveException"
      [] op = "create_session" -> "BatchSessionSaveException"
      [] op = "update_session_state" -> "BatchSessionSaveException"
      [] OTHER -> "BatchSessionNotFoundException"

\* whether the statement of an operation raises sqlite3.Error on the tables
\* as they are: a foreign key that fails, a column that does not exist
raises_sqlite3_Error(op, f, processes) ==
    CASE op = "create_session" -> foreign_key_failed(processes, f.batch_id)
      [] op = "get_session" -> no_such_column(get_session_where(f.session_id))
      [] op = "get_created_session" ->
            no_such_column(get_created_session_where(f.batch_id))
      [] op = "get_created_sessions" ->
            no_such_column(get_created_sessions_where(f.batch_id))
      [] OTHER -> FALSE

\* the payload the caller threads save
ThreadBatches == <<BatchA, BatchB>>
ThreadGraph == "G1"

\* what the statement of an operation leaves in batch_process
execute_batch_process(op, f, processes) ==
    CASE op = "delete" -> delete_batch_process(processes, f.batch_id)
      [] op = "save" ->
            insert_or_ignore_batch_process(processes, f.batch_id,
                dumps_batches(ThreadBatches), graph_json(ThreadGraph))
      [] op = "cancel" -> update_canceled(processes, f.batch_id)
      [] OTHER -> processes

\* what the statement of an operation leaves in batch_session
execute_batch_session(op, f, sessions) ==
    CASE op = "delete" -> on_delete_cascade(sessions, f.batch_id)
      [] op = "create_session" ->
            insert_or_ignore_batch_session(sessions,
                BatchSession(f.batch_id, f.session_id, f.state))
      [] op = "update_session_state" ->
            update_state(sessions, f.state, f.batch_id, f.session_id)
      [] OTHER -> sessions

\* what the SELECT of an operation may fetch
fetch(op, f, processes, sessions) ==
    CASE op = "get" -> {get_returns(processes, f.batch_id)}
      [] op = "get_session" -> get_session_returns(sessions, f.session_id)
      [] op = "get_created_session" -> get_created_session_returns(sessions, f.batch_id)
      [] OTHER -> {get_created_sessions_returns(sessions, f.batch_id)}

\* whether the row an operation names is in its table
names_row(f, processes, sessions) ==
    IF f.op \in {"create_session", "update_session_state"}
    THEN has_session(sessions, f.batch_id, f.session_id)
    ELSE f.batch_id \in ids_of(processes)

\* where an exception caught in the with-block goes first: to the handler's
\* self._conn.rollback()
handler_without_rollback == "exit"
handler == "rollback"

\* a caller thread calls an operation of the store
invoke(t, f) ==
    /\ pc[t] = "idle"
    /\ waiting \in -MaxWaitingDrift..MaxWaitingDrift
    /\ pc' = [pc EXCEPT ![t] = "enter"]
    /\ frame' = [frame EXCEPT ![t] = f]
    /\ UNCHANGED <<batch_process, batch_session, call, ret, cancel_history,
                   sqlite_lock, waiting, journal>>

\* SqliteLock.__enter__, "waiting = waiting + 1": the global is read ...
enter_load(t) ==
    /\ pc[t] = "enter"
    /\ pc' = [pc EXCEPT ![t] = "enter_store"]
    /\ frame' = [frame EXCEPT ![t].loaded = waiting + 1]
    /\ UNCHANGED <<batch_process, batch_session, call, ret, cancel_history,
                   sqlite_lock, waiting, journal>>

\* ... and written, in two steps of the interpreter
enter_store(t) ==
    /\ pc[t] = "enter_store"
    /\ waiting' = frame[t].loaded
    /\ pc' = [pc EXCEPT ![t] = "acquire"]
    /\ frame' = [frame EXCEPT ![t].loaded = 0]
    /\ UNCHANGED <<batch_process, batch_session, call, ret, cancel_history,
                   sqlite_lock, journal>>

\* SqliteLock.__enter__, sqlite_lock.acquire()
lock_acquire(t) ==
    /\ pc[t] = "acquire"
    /\ can_acquire(sqlite_lock, t)
    /\ sqlite_lock' = acquire(sqlite_lock, t)
    /\ pc' = [pc EXCEPT ![t] = "acquired"]
    /\ UNCHANGED <<batch_process, batch_session, call, ret, cancel_history,
                   waiting, journal, frame>>

\* SqliteLock.__enter__, "waiting = waiting - 1": read ...
acquired_load(t) ==
    /\ pc[t] = "acquired"
    /\ pc' = [pc EXCEPT ![t] = "acquired_store"]
    /\ frame' = [frame EXCEPT ![t].loaded = waiting - 1]
    /\ UNCHANGED <<batch_process, batch_session, call, ret, cancel_history,
                   sqlite_lock, waiting, journal>>

\* ... and written
acquired_store(t) ==
    /\ pc[t] = "acquired_store"
    /\ waiting' = frame[t].loaded
    /\ pc' = [pc EXCEPT ![t] = "execute"]
    /\ frame' = [frame EXCEPT ![t].loaded = 0]
    /\ UNCHANGED <<batch_process, batch_session, call, ret, cancel_history,
                   sqlite_lock, journal>>

\* self._cursor.execute(...), and fetchone() or fetchall() after a SELECT;
\* the statement may raise sqlite3.Error whatever the tables hold
execute(t) ==
    LET f == frame[t]
        op == running(f)
    IN
    /\ pc[t] = "execute"
    /\ \E sqlite3_Error \in BOOLEAN :
         IF sqlite3_Error \/ raises_sqlite3_Error(op, f, batch_process)
         THEN /\ pc' = [pc EXCEPT ![t] = handler]
              /\ frame' = [frame EXCEPT ![t].exc = except_sqlite3_Error(op)]
              /\ UNCHANGED <<batch_process, batch_session, journal>>
         ELSE IF op \in Selects
         THEN /\ \E result \in fetch(op, f, batch_process, batch_session) :
                    frame' = [frame EXCEPT ![t].result = outcome(result)]
              /\ pc' = [pc EXCEPT ![t] = "exit"]
              /\ UNCHANGED <<batch_process, batch_session, journal>>
         ELSE /\ batch_process' = execute_batch_process(op, f, batch_process)
              /\ batch_session' = execute_batch_session(op, f, batch_session)
              /\ journal' = begin(batch_process, batch_session)
              /\ frame' = [frame EXCEPT
                              ![t].existed = names_row(f, batch_process, batch_session)]
              /\ pc' = [pc EXCEPT ![t] = "commit"]
    /\ UNCHANGED <<call, ret, cancel_history, sqlite_lock, waiting>>

\* self._conn.commit(); it may raise sqlite3.Error
commit(t) ==
    /\ pc[t] = "commit"
    /\ \E sqlite3_Error \in BOOLEAN :
         IF sqlite3_Error
         THEN /\ pc' = [pc EXCEPT ![t] = handler]
              /\ frame' = [frame EXCEPT ![t].exc = except_sqlite3_Error(running(frame[t]))]
              /\ UNCHANGED journal
         ELSE /\ pc' = [pc EXCEPT ![t] = "exit"]
              /\ frame' = [frame EXCEPT
                              ![t].committed = TRUE,
                              ![t].changed = \/ batch_process # journal.batch_process
                                             \/ batch_session # journal.batch_session]
              /\ journal' = autocommit
    /\ UNCHANGED <<batch_process, batch_session, call, ret, cancel_history,
                   sqlite_lock, waiting>>

\* self._conn.rollback() in the except clause
rollback(t) ==
    /\ pc[t] = "rollback"
    /\ batch_process' = IF journal.open THEN journal.batch_process ELSE batch_process
    /\ batch_session' = IF journal.open THEN journal.batch_session ELSE batch_session
    /\ journal' = autocommit
    /\ frame' = [frame EXCEPT ![t].rolled_back = TRUE,
                              ![t].held = (sqlite_lock.owner = t)]
    /\ pc' = [pc EXCEPT ![t] = "exit"]
    /\ UNCHANGED <<call, ret, cancel_history, sqlite_lock, waiting>>

\* SqliteLock.__exit__, sqlite_lock.release(): the with-block is left, by
\* its end or by the exception raised in it
exit(t) ==
    /\ pc[t] = "exit"
    /\ sqlite_lock' = release(sqlite_lock)
    /\ pc' = [pc EXCEPT ![t] = "after"]
    /\ UNCHANGED <<batch_process, batch_session, call, ret, cancel_history,
                   waiting, journal, frame>>

\* after the with-block: the exception reaches the caller, or the read-back
\* begins, or the operation returns ("if result is None: raise ...")
after(t) ==
    LET f == frame[t] IN
    /\ pc[t] = "after"
    /\ IF f.exc # None
       THEN /\ pc' = [pc EXCEPT ![t] = "idle"]
            /\ frame' = [frame EXCEPT ![t].ret = outcome(Raise(f.exc))]
       ELSE IF f.block = "statement" /\ f.op \in ReadBack
       THEN /\ pc' = [pc EXCEPT ![t] = "enter"]
            /\ frame' = [frame EXCEPT ![t].block = "read_back"]
       ELSE /\ pc' = [pc EXCEPT ![t] = "idle"]
            /\ frame' = [frame EXCEPT
                            ![t].ret = IF running(f) \in Selects
                                       THEN f.result ELSE Return(NoValue),
                            ![t].result = Return(NoValue)]
    /\ UNCHANGED <<batch_process, batch_session, call, ret, cancel_history,
                   sqlite_lock, waiting, journal>>

\* the session states the caller threads update to
ThreadStates == {"completed", "error"}

\* the calls of the caller threads: every operation, on one batch and one
\* session of it
ThreadWorkload ==
    {Frame(op, "B1", None, None) :
        op \in {"delete", "save", "get", "cancel",
                "get_created_session", "get_created_sessions"}}
    \cup {Frame("create_session", "B1", "S1", "created"),
          Frame("get_session", None, "S1", None)}
    \cup {Frame("update_session_state", "B1", "S1", state) : state \in ThreadStates}

\* what a thread does once it is inside an operation
Advance(t) ==
    \/ enter_load(t)
    \/ enter_store(t)
    \/ lock_acquire(t)
    \/ acquired_load(t)
    \/ acquired_store(t)
    \/ execute(t)
    \/ commit(t)
    \/ rollback(t)
    \/ exit(t)
    \/ after(t)

\* one step of any caller thread, its calls drawn from a workload
Threaded(workload) ==
    \/ \E t \in Threads, f \in workload : invoke(t, f)
    \/ \E t \in Threads : enter_load(t)
    \/ \E t \in Threads : enter_store(t)
    \/ \E t \in Threads : lock_acquire(t)
    \/ \E t \in Threads : acquired_load(t)
    \/ \E t \in Threads : acquired_store(t)
    \/ \E t \in Threads : execute(t)
    \/ \E t \in Threads : commit(t)
    \/ \E t \in Threads : rollback(t)
    \/ \E t \in Threads : exit(t)
    \/ \E t \in Threads : after(t)

ThreadNext == Threaded(ThreadWorkload)

ThreadSpec == Init /\ [][ThreadNext]_vars

\* the calls of the fair workload: an operation that reads back, one that
\* does not, and a read
FairWorkload ==
    {Frame(op, "B1", None, None) : op \in {"save", "delete", "get"}}

FairThreadNext == Threaded(FairWorkload)

\* the scheduler and the lock are fair: a thread inside an operation that
\* can take a step again and again takes one (every step of Advance moves pc)
FairThreadSpec ==
    Init /\ [][FairThreadNext]_vars /\ \A t \in Threads : SF_pc(Advance(t))

-----------------------------------------------------------------------------
(* Properties                                                              *)

\* the rows of batch_session that belong to a batch, in creation order
sessions_of(table, batch_id) == SelectSeq(table, LAMBDA row : row.batch_id = batch_id)

\* the rows of a batch that are in state created, in creation order
created_sessions_of(table, batch_id) ==
    SelectSeq(table, LAMBDA row : row.batch_id = batch_id /\ row.state = "created")

\* C1: save of a BatchProcess whose batch_id already has a row leaves both
\* tables as they were (the row keeps its batches, graph and canceled, no
\* row is added) and returns the row that was stored, whatever payload the
\* caller passed.
C1_IdempotentSave ==
    [][(call'.op = "save" /\ call'.batch_id \in ids_of(batch_process))
        => /\ batch_process' = batch_process
           /\ batch_session' = batch_session
           /\ ret'.kind = "ok"
           /\ ret' = get_returns(batch_process, call'.batch_id)]_vars

\* a save has returned a stored row whose batches and graph both differ from
\* the payload the caller passed
C1_Witness ==
    /\ call.op = "save"
    /\ call.existed
    /\ ret.kind = "ok"
    /\ ret.value.batches # call.batches
    /\ ret.value.graph # call.graph

\* C2: create_session for a pair (batch_id, session_id) that already has a
\* row does not fail and leaves batch_session as it was: the stored state is
\* kept, whatever it is by now, and no second row is added.
C2_IdempotentCreateSession ==
    [][(call'.op = "create_session"
            /\ has_session(batch_session, call'.batch_id, call'.session_id))
        => /\ batch_session' = batch_session
           /\ batch_process' = batch_process
           /\ ret'.kind = "ok"]_vars

\* create_session has returned for a pair whose row had been moved on to
\* another state than the one passed
C2_Witness ==
    /\ call.op = "create_session"
    /\ call.existed
    /\ ret.kind = "ok"
    /\ \E i \in 1..Len(batch_session) :
          /\ batch_session[i].batch_id = call.batch_id
          /\ batch_session[i].session_id = call.session_id
          /\ batch_session[i].state \in {"inprogress", "completed", "error"}
          /\ batch_session[i].state # call.state

C4_CascadeDelete ==
    [][call'.op = "delete"
        => /\ \A i \in 1..Len(batch_session) :
                 batch_session[i].batch_id = call'.batch_id
                    => \A r \in get_session_returns(batch_session', batch_session[i].session_id) :
                          r.kind = "BatchSessionNotFoundException"
           /\ get_returns(batch_process', call'.batch_id).kind
                 = "BatchProcessNotFoundException"]_vars

\* C5: once cancel has returned for an existing batch, every later get of
\* that batch_id that succeeds reports canceled = true, whatever operations
\* ran in between.
C5_CancellationMonotonicity ==
    \A b \in DOMAIN cancel_history :
        (cancel_history[b] # "never" /\ get_returns(batch_process, b).kind = "ok")
            => get_returns(batch_process, b).value.canceled

\* C5 as amended: once cancel has returned for an existing batch, get of that
\* batch_id succeeds and reports canceled = true for as long as the batch has
\* not been deleted; and no operation takes the canceled flag of a row from
\* true to false while the row stays in the table.
C5_CancellationMonotonicityUntilDelete ==
    /\ [](\A b \in DOMAIN cancel_history :
            cancel_history[b] = "canceled"
                => /\ get_returns(batch_process, b).kind = "ok"
                   /\ get_returns(batch_process, b).value.canceled)
    /\ [][\A b \in BatchIds :
            (/\ get_returns(batch_process, b).kind = "ok"
             /\ get_returns(batch_process, b).value.canceled
             /\ get_returns(batch_process', b).kind = "ok")
                => get_returns(batch_process', b).value.canceled]_vars

\* a get reports canceled = true for a batch that was canceled, while the
\* other batch was canceled, deleted and saved again
C5_Witness ==
    /\ call.op = "get"
    /\ ret.kind = "ok"
    /\ ret.value.canceled
    /\ cancel_history[call.batch_id] = "canceled"
    /\ \E b \in BatchIds : cancel_history[b] = "deleted" /\ b \in ids_of(batch_process)

\* C6: after update_session_state(batch_id, session_id, {state: x}) on an
\* existing session, get_session(session_id) returns a session whose state
\* is x.
C6_StateTransitionVisibility ==
    (call.op = "update_session_state"
        /\ has_session(batch_session, call.batch_id, call.session_id))
    => \A r \in get_session_returns(batch_session, call.session_id) :
          r.kind = "ok" /\ r.value.state = call.state

\* C7: get_created_sessions(batch_id) returns exactly the sessions of the
\* batch that are in state created, in creation order.
C7_CreatedSessionsInOrder ==
    (call.op = "get_created_sessions"
        /\ created_sessions_of(batch_session, call.batch_id) # << >>)
    => /\ ret.kind = "ok"
       /\ ret.value = created_sessions_of(batch_session, call.batch_id)

\* C8: get_created_sessions(batch_id) fails with BatchSessionNotFoundException
\* if and only if the batch has no session in state created.
C8_CreatedSessionsNotFound ==
    call.op = "get_created_sessions"
    => (ret.kind = "BatchSessionNotFoundException"
           <=> created_sessions_of(batch_session, call.batch_id) = << >>)

\* C9: get_created_session(batch_id) returns a stored session of that batch
\* in state created whenever there is one, and fails with
\* BatchSessionNotFoundException exactly when there is none.
C9_CreatedSession ==
    call.op = "get_created_session"
    => IF created_sessions_of(batch_session, call.batch_id) # << >>
       THEN /\ ret.kind = "ok"
            /\ ret.value.batch_id = call.batch_id
            /\ ret.value.state = "created"
            /\ \E i \in 1..Len(batch_session) : batch_session[i] = ret.value
       ELSE ret.kind = "BatchSessionNotFoundException"

\* get_created_session has returned a session of a batch that also holds a
\* session in another state
C9_Witness ==
    /\ call.op = "get_created_session"
    /\ ret.kind = "ok"
    /\ \E i \in 1..Len(batch_session) :
          batch_session[i].batch_id = call.batch_id /\ batch_session[i].state # "created"

\* the other case: the batch holds sessions, none of them in state created,
\* and get_created_session has failed
C9_WitnessNotFound ==
    /\ call.op = "get_created_session"
    /\ ret.kind = "BatchSessionNotFoundException"
    /\ sessions_of(batch_session, call.batch_id) # << >>

-----------------------------------------------------------------------------
(* Properties of the store under caller threads                            *)

\* a thread is back from an operation it called
returned(t) == pc[t] = "idle" /\ frame[t].op # "__init__"

\* a thread is back from an operation that raised
raised(t) == returned(t) /\ frame[t].ret.kind # "ok"

\* C11: when the UPDATE or the commit of cancel fails, the transaction is
\* rolled back and cancel raises BatchProcessSaveException, the exception of
\* save, and no exception of the session kind
C11_CancelRaisesSaveError ==
    \A t \in Threads :
        raised(t) /\ frame[t].op = "cancel"
            => /\ frame[t].rolled_back
               /\ frame[t].ret.kind = except_sqlite3_Error("save")

\* C12: save(bp) returns the stored row whose batch_id is bp.batch_id or
\* raises BatchProcessSaveException and nothing else, and it returns the row
\* whenever its INSERT was committed, whatever the other threads do
C12_SaveReturnsRow ==
    \A t \in Threads :
        returned(t) /\ frame[t].op = "save"
            => /\ \/ /\ frame[t].ret.kind = "ok"
                     /\ frame[t].ret.value.batch_id = frame[t].batch_id
                  \/ frame[t].ret.kind = "BatchProcessSaveException"
               /\ frame[t].committed => frame[t].ret.kind = "ok"

\* C13: update_session_state(b, s, {state: x}) on an existing session whose
\* session_id no other batch uses returns the row with state x: no update
\* and no delete of another thread takes effect between its UPDATE and its
\* read-back
C13_UpdateReturnsRequestedState ==
    \A t \in Threads :
        /\ returned(t)
        /\ frame[t].op = "update_session_state"
        /\ frame[t].existed
        /\ frame[t].committed
        /\ ~frame[t].rolled_back
        => /\ frame[t].ret.kind = "ok"
           /\ frame[t].ret.value.state = frame[t].state

\* C14: an operation that ends by raising a typed error has committed no
\* change to the tables
C14_AllOrNothing ==
    \A t \in Threads : raised(t) => ~frame[t].changed

\* a thread is running a statement, a fetch, a commit or a rollback on the
\* connection and its cursor
on_connection(t) == pc[t] \in {"execute", "commit", "rollback"}

\* the operations that write
Mutating == {"save", "cancel", "delete", "create_session", "update_session_state"}

\* C15: at most one thread at a time is on the connection, and it holds the
\* lock; the holder may acquire the lock again, every other thread may not,
\* and the lock goes to another thread only from hold count zero
C15_MutualExclusion ==
    /\ [](\A t \in Threads :
            /\ on_connection(t) =>
                  /\ sqlite_lock.owner = t
                  /\ sqlite_lock.count >= 1
                  /\ \A other \in Threads \ {t} : ~on_connection(other)
            /\ sqlite_lock.owner = t =>
                  /\ can_acquire(sqlite_lock, t)
                  /\ \A other \in Threads \ {t} : ~can_acquire(sqlite_lock, other))
    /\ [][\A t \in Threads :
            sqlite_lock'.owner = t /\ sqlite_lock.owner # t => sqlite_lock.count = 0]_vars

\* one thread is on the connection while another has asked for the lock and
\* is blocked
C15_Witness ==
    \E t, other \in Threads :
        /\ t # other
        /\ pc[t] = "commit"
        /\ sqlite_lock = [owner |-> t, count |-> 1]
        /\ pc[other] = "acquire"
        /\ ~can_acquire(sqlite_lock, other)

\* C16: in a mutating operation whose statement or commit fails, rollback()
\* runs while the thread holds the lock, the lock is released next, and the
\* caller sees the typed error only after that; a thread that is not inside
\* a with-block, back from an operation or not, holds the lock as often as
\* before the call: not at all
C16_RollbackReleaseRaise ==
    /\ [](\A t \in Threads :
            /\ pc[t] = "rollback" => sqlite_lock.owner = t /\ sqlite_lock.count >= 1
            /\ pc[t] \in {"idle", "enter", "enter_store", "acquire", "after"}
                  => sqlite_lock.owner # t
            /\ /\ raised(t)
               /\ frame[t].op \in Mutating
               /\ frame[t].ret.kind = except_sqlite3_Error(frame[t].op)
               => frame[t].rolled_back /\ frame[t].held)
    /\ [][\A t \in Threads :
            /\ pc[t] = "rollback" /\ pc'[t] # "rollback"
                  => pc'[t] = "exit" /\ sqlite_lock'.owner = t
            /\ pc[t] = "exit" /\ pc'[t] # "exit"
                  => /\ pc'[t] = "after"
                     /\ sqlite_lock'.owner # t
                     /\ frame'[t].ret = frame[t].ret
            /\ frame[t].ret.kind = "ok" /\ frame'[t].ret.kind # "ok"
                  => pc[t] = "after" /\ sqlite_lock.owner # t]_vars

\* delete found its row, its commit failed, the DELETE was rolled back under
\* the lock and the caller has seen BatchProcessDeleteException
C16_Witness ==
    \E t \in Threads :
        /\ raised(t)
        /\ frame[t].op = "delete"
        /\ frame[t].existed
        /\ frame[t].rolled_back /\ frame[t].held
        /\ frame[t].ret.kind = "BatchProcessDeleteException"
        /\ frame[t].batch_id \in ids_of(batch_process)
        /\ sqlite_lock.owner # t

waiting_threads == {t \in Threads : pc[t] \in {"acquire", "acquired", "acquired_store"}}

\* C20: waiting is the number of threads waiting for the lock: it counts the
\* threads that have incremented it in __enter__ and not taken their count
\* back, it is never negative, and it is 0 when no thread is waiting
C20_WaitingCountsWaiters ==
    /\ waiting = Cardinality(waiting_threads)
    /\ waiting >= 0
    /\ waiting_threads = {} => waiting = 0

-----------------------------------------------------------------------------
(* Properties of the rows, one caller at a time                            *)

\* the session rows of a table with the key (batch_id, session_id)
session_rows(table, batch_id, session_id) ==
    {i \in 1..Len(table) :
        table[i].batch_id = batch_id /\ table[i].session_id = session_id}

\* C17: update_session_state on an existing session succeeds whatever the
\* current and the requested state are, stores the requested state in that
\* row, and leaves every other row of both tables as it was
C17_EveryTransition ==
    [][call'.op = "update_session_state" /\ call'.existed
        => /\ ret'.kind = "ok"
           /\ batch_process' = batch_process
           /\ Len(batch_session') = Len(batch_session)
           /\ \A i \in 1..Len(batch_session) :
                IF i \in session_rows(batch_session, call'.batch_id, call'.session_id)
                THEN batch_session'[i] = [batch_session[i] EXCEPT !.state = call'.state]
                ELSE batch_session'[i] = batch_session[i]]_vars

\* a session has been taken back to created by update_session_state, next to
\* a finished session of another batch that kept its state
C17_Witness ==
    /\ call.op = "update_session_state"
    /\ call.existed
    /\ call.state = "created"
    /\ ret.kind = "ok"
    /\ Len(batch_session) = 2
    /\ \E i, j \in 1..Len(batch_session) :
        /\ i \in session_rows(batch_session, call.batch_id, call.session_id)
        /\ batch_session[i].state = "created"
        /\ batch_session[j].batch_id # call.batch_id
        /\ batch_session[j].state = "completed"

\* C18: a stored row changes in canceled (batch_process) and in state
\* (batch_session) only: cancel changes the canceled flag of the row with its
\* id and nothing else, nothing at all when the id is not stored;
\* update_session_state changes the state of the row (batch_id, session_id)
\* and nothing else; batches and graph of a stored batch never change
C18_ImmutableFields ==
    [][/\ \A r \in batch_process, r2 \in batch_process' :
            r.batch_id = r2.batch_id
                => /\ r2.batches = r.batches
                   /\ r2.graph = r.graph
                   /\ r2.canceled # r.canceled
                        => call'.op = "cancel" /\ call'.batch_id = r.batch_id
       /\ \A i \in 1..Len(batch_session), j \in 1..Len(batch_session') :
            /\ batch_session[i].batch_id = batch_session'[j].batch_id
            /\ batch_session[i].session_id = batch_session'[j].session_id
            /\ batch_session[i].state # batch_session'[j].state
            => /\ call'.op = "update_session_state"
               /\ call'.batch_id = batch_session[i].batch_id
               /\ call'.session_id = batch_session[i].session_id
       /\ call'.op = "cancel"
            => /\ batch_session' = batch_session
               /\ ids_of(batch_process') = ids_of(batch_process)
               /\ ~call'.existed => batch_process' = batch_process
       /\ call'.op = "update_session_state"
            => /\ batch_process' = batch_process
               /\ Len(batch_session') = Len(batch_session)
               /\ \A i \in 1..Len(batch_session) :
                    /\ batch_session'[i].batch_id = batch_session[i].batch_id
                    /\ batch_session'[i].session_id = batch_session[i].session_id]_vars

\* cancel has set the flag of one of two stored batches; the other one is
\* not canceled, and both hold the payloads they were saved with
C18_Witness ==
    /\ call.op = "cancel"
    /\ call.existed
    /\ \E r, other \in batch_process :
        /\ r.batch_id = call.batch_id
        /\ r.canceled = 1
        /\ other.batch_id # call.batch_id
        /\ other.canceled = 0
        /\ other.batches # r.batches
        /\ other.graph # r.graph

====
